---- MODULE Spec2Model ----
(***************************************************************************)
(* Model of the DCIM Angular frontend: the rack-unit occupancy logic of    *)
(* DynamicRackComponent and RackViewComponent, and the token handling of   *)
(* AuthInterceptor / AuthService.                                          *)
(***************************************************************************)
EXTENDS Integers, Sequences, FiniteSets, TLC

VARIABLES
    units,        \* @Input() units of the rack component
    occupied,     \* @Input() occupied: list of {start, height, label}
    call,         \* the last method invoked on a rack component, with its arguments
    ret,          \* the value that invocation returned
    emitted,      \* the deviceClick events that invocation emitted, in order
    localStorage, \* browser localStorage: key -> stored value or Null
    routerUrl,    \* the route of the last Router.navigate
    isRefreshing, \* AuthInterceptor.isRefreshing
    tokenSubject, \* current value of AuthInterceptor.tokenSubject (a BehaviorSubject)
    reqs,         \* the HTTP requests of the application, by request id
    issued        \* how many token pairs the backend's /refresh has issued

rackVars == <<units, occupied, call, ret, emitted>>

authVars == <<localStorage, routerUrl, isRefreshing, tokenSubject, reqs, issued>>

vars == <<units, occupied, call, ret, emitted,
          localStorage, routerUrl, isRefreshing, tokenSubject, reqs, issued>>

----------------------------------------------------------------------------
(* Bounds of the rack model *)

MaxUnits == 2
MaxEntries == 2

(* JavaScript undefined: what Array.prototype.find returns on no match and *)
(* what a void method returns *)
Undefined == [undefined |-> TRUE]

LabelNames == <<"Server-01", "Server-02", "Server-03", "Server-04">>

(* Unit positions and heights handed to a rack of u units. Nothing         *)
(* validates them, so position 0, heights below 1 and devices reaching     *)
(* above the top of the rack are included.                                 *)
Starts(u) == 0..u
Heights(u) == 0..u
Slots(u) == 0..(u + 1)

(* The lists a parent page can bind to [occupied]: up to MaxEntries        *)
(* entries in any order, the i-th device carrying the i-th label.          *)
OccupiedLists(u) ==
    UNION { { [i \in 1..n |-> [start |-> l[i].start, height |-> l[i].height,
                                label |-> LabelNames[i]]]
              : l \in [1..n -> [start : Starts(u), height : Heights(u)]] }
            : n \in 0..MaxEntries }

----------------------------------------------------------------------------
(* Array.prototype.find: the elements are visited in ascending index order *)
(* and the first one the predicate accepts is returned; undefined when     *)
(* none is. hits is the set of indices the predicate accepts.              *)

RECURSIVE ArrayFindLast(_, _, _)
ArrayFindLast(arr, hits, i) ==
    IF i < 1 THEN Undefined
    ELSE IF i \in hits THEN arr[i]
    ELSE ArrayFindLast(arr, hits, i - 1)

RECURSIVE ArrayFind(_, _, _)
ArrayFind(arr, hits, i) ==
    IF i > Len(arr) THEN Undefined
    ELSE IF i \in hits THEN arr[i]
    ELSE ArrayFind(arr, hits, i + 1)

(* Array.from({ length: n }, (_, i) => n - i): a length below 0 gives [] *)
ArrayFromDescending(n) == [i \in 1..(IF n > 0 THEN n ELSE 0) |-> n - (i - 1)]

----------------------------------------------------------------------------
(* DynamicRackComponent *)

Dynamic_getSlots_Ascending == [i \in 1..(IF units > 0 THEN units ELSE 0) |-> i]

Dynamic_getSlots == ArrayFromDescending(units)

Dynamic_isOccupied_InclusiveEnd(slot) ==
    ArrayFind(occupied,
              { i \in 1..Len(occupied) :
                  slot >= occupied[i].start /\ slot <= (occupied[i].start + occupied[i].height) },
              1)

Dynamic_isOccupied_LastMatch(slot) ==
    ArrayFindLast(occupied,
                  { i \in 1..Len(occupied) :
                      slot >= occupied[i].start /\ slot < (occupied[i].start + occupied[i].height) },
                  Len(occupied))

Dynamic_isOccupied_NoLowerBound(slot) ==
    ArrayFind(occupied,
              { i \in 1..Len(occupied) : slot < (occupied[i].start + occupied[i].height) },
              1)

Dynamic_isOccupied(slot) ==
    ArrayFind(occupied,
              { i \in 1..Len(occupied) :
                  slot >= occupied[i].start /\ slot < (occupied[i].start + occupied[i].height) },
              1)

Dynamic_shouldRenderBlock_Covered(slot, occ) ==
    slot >= occ.start /\ slot < (occ.start + occ.height)

Dynamic_shouldRenderBlock(slot, occ) == slot = occ.start

(* onDeviceClick(device): this.deviceClick.emit(device) *)
Dynamic_onDeviceClick_WithoutLabel(device) ==
    << [start |-> device.start, height |-> device.height] >>

Dynamic_onDeviceClick(device) == << device >>

(* onSlotClick(slot): emits { empty: true, slot } when isOccupied(slot) is *)
(* falsy (undefined), nothing otherwise                                    *)
Dynamic_onSlotClick_Unconditional(slot) == << [empty |-> TRUE, slot |-> slot] >>

Dynamic_onSlotClick(slot) ==
    LET occ == Dynamic_isOccupied(slot)
    IN  IF occ = Undefined THEN << [empty |-> TRUE, slot |-> slot] >> ELSE <<>>

----------------------------------------------------------------------------
(* RackViewComponent *)

RackView_getSlots == ArrayFromDescending(units)

RackView_isOccupied(slot) ==
    ArrayFind(occupied,
              { i \in 1..Len(occupied) :
                  slot >= occupied[i].start /\ slot < (occupied[i].start + occupied[i].height) },
              1)

RackView_shouldRenderBlock(slot, occ) == slot = (occ.start + occ.height - 1)

----------------------------------------------------------------------------
(* AuthService and AuthInterceptor *)

MaxReq == 2
MaxTokens == 2

TokenExpired == 419
Unauthorized == 401
InternalServerError == 500

Reqs == 1..MaxReq

(* localStorage.getItem of a missing key, a null response body *)
Null == [null |-> TRUE]

StorageKeys == {"access_token", "refresh_token", "config", "user", "menu"}

(* The n-th token pair the backend issued *)
AccessToken(n) == [kind |-> "access", gen |-> n]
RefreshToken(n) == [kind |-> "refresh", gen |-> n]

(* An Authorization header value *)
Bearer(token) == [scheme |-> "Bearer", token |-> token]
ExplicitAuthorization == [scheme |-> "Basic", token |-> Null]

(* URLs as path segments; url.includes('/login') looks for the segment *)
ListUrl == <<"api", "dcim", "list">>
LoginUrl == <<"api", "dcim", "login">>
RefreshUrl == <<"api", "dcim", "refresh">>
AppUrls == {ListUrl, LoginUrl}

(* The requests the application makes: AuthService.login posts without    *)
(* headers of its own; a request to any other URL may carry its own        *)
(* Authorization header                                                    *)
AppRequests ==
    { [url |-> LoginUrl, hdr |-> Null] }
    \cup { [url |-> ListUrl, hdr |-> h] : h \in {Null, ExplicitAuthorization} }

Includes(url, segment) == \E i \in 1..Len(url) : url[i] = segment

HttpError(status) == [kind |-> "HttpErrorResponse", status |-> status]
PlainError(message) == [kind |-> "Error", message |-> message]

Statuses == {Unauthorized, TokenExpired, InternalServerError}

(* AuthService getters *)
accessToken == localStorage["access_token"]
refreshToken == localStorage["refresh_token"]

(* A saveTokens that keeps the old refresh token *)
saveTokens_AccessOnly(store, access, refresh) ==
    [store EXCEPT !["access_token"] = access]

(* AuthService.saveTokens *)
saveTokens(store, access, refresh) ==
    [store EXCEPT !["access_token"] = access, !["refresh_token"] = refresh]

(* AuthService.logout: the five keys are removed, then the router is sent  *)
(* to /login                                                               *)
LoggedOutStorage == [k \in StorageKeys |-> Null]

(* A logout that navigates but leaves the storage alone *)
Logout_RouteOnly ==
    /\ localStorage' = localStorage
    /\ routerUrl' = "/login"

Logout ==
    /\ localStorage' = LoggedOutStorage
    /\ routerUrl' = "/login"

(* An addToken that replaces a header the request already carries *)
addToken_OverridesAuthorization(url, hdr, token) ==
    IF token = Null THEN hdr
    ELSE IF Includes(url, "login") \/ Includes(url, "refresh") THEN hdr
    ELSE Bearer(token)

(* AuthInterceptor.addToken: the Authorization header of the request it    *)
(* returns, for a request to url whose own Authorization header is hdr     *)
addToken(url, hdr, token) ==
    IF token = Null THEN hdr
    ELSE IF Includes(url, "login") \/ Includes(url, "refresh") \/ hdr # Null THEN hdr
    ELSE Bearer(token)

(* AuthService.refreshAccessToken: the request it posts, or none when no   *)
(* refresh token is stored (it then returns of(null))                      *)
refreshAccessToken ==
    IF refreshToken = Null THEN <<>>
    ELSE << [url |-> RefreshUrl,
             auth |-> addToken(RefreshUrl, Bearer(refreshToken), accessToken)] >>

NewRequest == [state |-> "new", url |-> <<>>, hdr |-> Null, wire |-> <<>>, error |-> Null,
               status |-> 0, body |-> Null, shown |-> <<>>]

(* Requests to /login are those of LoginComponent.onLogin (AuthService.login) *)
IsLogin(r) == reqs[r].url = LoginUrl

(* The error reaches the caller. AuthService.login turns it into a value   *)
(* (catchError(err => of(err))), which has no tokens, so onLogin shows     *)
(* 'Invalid username or password'.                                         *)
Fail(r, err, status) ==
    [reqs EXCEPT ![r].state = "failed", ![r].error = err, ![r].status = status,
                 ![r].shown = IF IsLogin(r)
                              THEN Append(@, "Invalid username or password")
                              ELSE @]

(* next.handle(this.addToken(req, token)): the request goes out again *)
Resend(q, token, state) ==
    [q EXCEPT !.state = state,
              !.wire = Append(@, [url |-> q.url, auth |-> addToken(q.url, q.hdr, token)])]

(* AuthInterceptor.intercept up to next.handle(authReq): the application   *)
(* issues request r and it goes out with the token attached                *)
Intercept(r, url, hdr) ==
    /\ reqs[r].state = "new"
    /\ reqs' = [reqs EXCEPT ![r].state = "sent", ![r].url = url, ![r].hdr = hdr,
                            ![r].wire = << [url |-> url,
                                            auth |-> addToken(url, hdr, accessToken)] >>]
    /\ UNCHANGED <<localStorage, routerUrl, isRefreshing, tokenSubject, issued>>
    /\ UNCHANGED rackVars

(* The bodies a success response can carry: for /login the next token     *)
(* pair with user, menuList and configure, or a body that lacks a token,   *)
(* or null; the body of any other request plays no part here               *)
ResponseBodies(r) ==
    IF IsLogin(r)
    THEN { [access_token |-> AccessToken(issued + 1), refresh_token |-> RefreshToken(issued + 1)],
           [access_token |-> Null, refresh_token |-> RefreshToken(issued + 1)],
           [access_token |-> AccessToken(issued + 1), refresh_token |-> Null],
           Null }
    ELSE { Null }

HasBothTokens(res) ==
    res # Null /\ res.access_token # Null /\ res.refresh_token # Null

(* What the next handler of LoginComponent.onLogin stores on a response    *)
(* with both tokens: saveTokens, then config, user and menu                *)
onLogin_Storage(res) ==
    [k \in StorageKeys |->
        CASE k = "access_token" -> res.access_token
          [] k = "refresh_token" -> res.refresh_token
          [] OTHER -> [json |-> k]]

(* The backend answers a request with a success status and body res. For  *)
(* a /login request the next handler of LoginComponent.onLogin runs.       *)
RespondOk(r, res) ==
    /\ reqs[r].state \in {"sent", "retried", "retriedQueued"}
    /\ IF IsLogin(r) /\ HasBothTokens(res)
       THEN /\ issued < MaxTokens
            /\ issued' = issued + 1
            /\ localStorage' = onLogin_Storage(res)
            /\ routerUrl' = "/dashboard"
            /\ reqs' = [reqs EXCEPT ![r].state = "done", ![r].body = res]
       ELSE /\ reqs' = [reqs EXCEPT ![r].state = "done", ![r].body = res,
                                    ![r].shown = IF IsLogin(r)
                                                 THEN Append(@, "Invalid username or password")
                                                 ELSE @]
            /\ UNCHANGED <<localStorage, routerUrl, issued>>
    /\ UNCHANGED <<isRefreshing, tokenSubject>>
    /\ UNCHANGED rackVars

(* A handleTokenExpiry that hands the 419 response itself to the caller *)
ExpiryNoRefreshToken_PassesError(r) ==
    /\ refreshToken = Null
    /\ Logout
    /\ reqs' = Fail(r, HttpError(TokenExpired), TokenExpired)
    /\ UNCHANGED <<isRefreshing, tokenSubject, issued>>

(* handleTokenExpiry, no refresh token stored: logout, 'Session Expired' *)
ExpiryNoRefreshToken(r) ==
    /\ refreshToken = Null
    /\ Logout
    /\ reqs' = Fail(r, PlainError("Session Expired"), TokenExpired)
    /\ UNCHANGED <<isRefreshing, tokenSubject, issued>>

(* A handleTokenExpiry that posts /refresh again while one is under way *)
ExpiryQueue_StartsRefresh(r) ==
    /\ refreshToken # Null
    /\ isRefreshing
    /\ reqs' = [reqs EXCEPT ![r].state = "refreshing", ![r].status = TokenExpired,
                            ![r].wire = @ \o refreshAccessToken]
    /\ UNCHANGED <<localStorage, routerUrl, isRefreshing, tokenSubject, issued>>

(* handleTokenExpiry, a refresh is under way: the request waits for the    *)
(* first non-null value of tokenSubject, which a BehaviorSubject hands to  *)
(* a new subscriber at once when it holds one                              *)
ExpiryQueue(r) ==
    /\ refreshToken # Null
    /\ isRefreshing
    /\ reqs' = [reqs EXCEPT ![r] =
                    IF tokenSubject # Null
                    THEN Resend([@ EXCEPT !.status = TokenExpired], tokenSubject, "retriedQueued")
                    ELSE [@ EXCEPT !.state = "queued", !.status = TokenExpired]]
    /\ UNCHANGED <<localStorage, routerUrl, isRefreshing, tokenSubject, issued>>

(* handleTokenExpiry, no refresh under way: this request starts one *)
ExpiryStartRefresh(r) ==
    /\ refreshToken # Null
    /\ ~isRefreshing
    /\ isRefreshing' = TRUE
    /\ tokenSubject' = Null
    /\ reqs' = [reqs EXCEPT ![r].state = "refreshing", ![r].status = TokenExpired,
                            ![r].wire = @ \o refreshAccessToken]
    /\ UNCHANGED <<localStorage, routerUrl, issued>>

(* The catchError of intercept: the backend answers the first send of      *)
(* request r with an error status                                          *)
RespondError(r, status) ==
    /\ reqs[r].state = "sent"
    /\ LET isRefreshCall == Includes(reqs[r].url, "refresh")
       IN  IF ~isRefreshCall /\ status = TokenExpired
           THEN \/ ExpiryNoRefreshToken(r)
                \/ ExpiryQueue(r)
                \/ ExpiryStartRefresh(r)
           ELSE IF ~isRefreshCall /\ status = Unauthorized
           THEN /\ Logout
                /\ reqs' = Fail(r, HttpError(status), status)
                /\ UNCHANGED <<isRefreshing, tokenSubject, issued>>
           ELSE /\ reqs' = Fail(r, HttpError(status), status)
                /\ UNCHANGED <<localStorage, routerUrl, isRefreshing, tokenSubject, issued>>
    /\ UNCHANGED rackVars

(* The bodies POST /refresh can answer with: the next token pair, or a     *)
(* body that lacks one of the tokens, or null                              *)
RefreshBodies ==
    { [access_token |-> AccessToken(issued + 1), refresh_token |-> RefreshToken(issued + 1)],
      [access_token |-> Null, refresh_token |-> RefreshToken(issued + 1)],
      [access_token |-> AccessToken(issued + 1), refresh_token |-> Null],
      Null }

(* The switchMap of handleTokenExpiry: POST /refresh answers with res *)
RefreshRespond(r, res) ==
    /\ reqs[r].state = "refreshing"
    /\ issued < MaxTokens
    /\ issued' = issued + 1
    /\ LET newAccess == IF res = Null THEN Null ELSE res.access_token
           newRefresh == IF res = Null THEN Null ELSE res.refresh_token
       IN  IF newAccess = Null \/ newRefresh = Null
           THEN \* throw new Error('Invalid refresh response'), caught below
                /\ isRefreshing' = FALSE
                /\ Logout
                /\ reqs' = [Fail(r, PlainError("Invalid refresh response"), reqs[r].status)
                               EXCEPT ![r].body = res]
                /\ UNCHANGED tokenSubject
           ELSE /\ localStorage' = saveTokens(localStorage, newAccess, newRefresh)
                /\ isRefreshing' = FALSE
                /\ tokenSubject' = newAccess
                /\ reqs' = [q \in Reqs |->
                              IF q = r
                              THEN Resend([reqs[q] EXCEPT !.body = res], newAccess, "retried")
                              ELSE IF reqs[q].state = "queued"
                              THEN Resend(reqs[q], newAccess, "retriedQueued")
                              ELSE reqs[q]]
                /\ UNCHANGED routerUrl
    /\ UNCHANGED rackVars

(* The catchError of handleTokenExpiry, POST /refresh fails *)
RefreshError(r, status) ==
    /\ reqs[r].state = "refreshing"
    /\ isRefreshing' = FALSE
    /\ Logout
    /\ reqs' = Fail(r, HttpError(status), status)
    /\ UNCHANGED <<tokenSubject, issued>>
    /\ UNCHANGED rackVars

(* The re-sent request of the refreshing caller fails: its error reaches   *)
(* the same catchError of handleTokenExpiry                                *)
RetryError(r, status) ==
    /\ reqs[r].state = "retried"
    /\ isRefreshing' = FALSE
    /\ Logout
    /\ reqs' = Fail(r, HttpError(status), status)
    /\ UNCHANGED <<tokenSubject, issued>>
    /\ UNCHANGED rackVars

(* The re-sent request of a queued caller fails: nothing catches it *)
QueuedRetryError(r, status) ==
    /\ reqs[r].state = "retriedQueued"
    /\ reqs' = Fail(r, HttpError(status), status)
    /\ UNCHANGED <<localStorage, routerUrl, isRefreshing, tokenSubject, issued>>
    /\ UNCHANGED rackVars

(* AuthService.isLoggedIn *)
isLoggedIn == localStorage["access_token"] # Null

(* A guard that looks at the token only *)
canActivate_TokenOnly == localStorage["access_token"] # Null

(* AuthGuard.canActivate: its return value *)
canActivate == localStorage["access_token"] # Null /\ localStorage["user"] # Null

(* HeaderComponent.logout: the user logs out *)
UserLogout ==
    /\ Logout
    /\ UNCHANGED <<isRefreshing, tokenSubject, reqs, issued>>
    /\ call' = [comp |-> "Header", op |-> "logout", slot |-> 0, occ |-> Undefined]
    /\ ret' = Undefined
    /\ UNCHANGED <<units, occupied, emitted>>

(* AuthGuard.canActivate on a route of the main layout: the router is sent *)
(* to /login when it refuses                                               *)
CanActivate ==
    /\ call' = [comp |-> "AuthGuard", op |-> "canActivate", slot |-> 0, occ |-> Undefined]
    /\ ret' = canActivate
    /\ routerUrl' = IF canActivate THEN routerUrl ELSE "/login"
    /\ UNCHANGED <<localStorage, isRefreshing, tokenSubject, reqs, issued>>
    /\ UNCHANGED <<units, occupied, emitted>>

(* A session after a successful login: both tokens, user, config and menu  *)
(* stored, no request issued, the interceptor as constructed               *)
SessionStarted ==
    /\ localStorage = [k \in StorageKeys |->
                         CASE k = "access_token" -> AccessToken(0)
                           [] k = "refresh_token" -> RefreshToken(0)
                           [] OTHER -> [json |-> k]]
    /\ routerUrl = "/dashboard"
    /\ isRefreshing = FALSE
    /\ tokenSubject = Null
    /\ reqs = [r \in Reqs |-> NewRequest]
    /\ issued = 0

DefaultUnits == 42

InitAuth ==
    /\ SessionStarted
    /\ units = DefaultUnits
    /\ occupied = <<>>
    /\ call = [comp |-> "none", op |-> "none", slot |-> 0, occ |-> Undefined]
    /\ ret = Undefined
    /\ emitted = <<>>

NextAuth ==
    \/ \E r \in Reqs, req \in AppRequests : Intercept(r, req.url, req.hdr)
    \/ \E r \in Reqs : \E res \in ResponseBodies(r) : RespondOk(r, res)
    \/ \E r \in Reqs, status \in Statuses : RespondError(r, status)
    \/ \E r \in Reqs : \E res \in RefreshBodies : RefreshRespond(r, res)
    \/ \E r \in Reqs, status \in Statuses : RefreshError(r, status)
    \/ \E r \in Reqs, status \in Statuses : RetryError(r, status)
    \/ \E r \in Reqs, status \in Statuses : QueuedRetryError(r, status)

SpecAuth == InitAuth /\ [][NextAuth]_vars

(* The backend answers what request r has in flight *)
Answered(r) ==
    \/ \E res \in ResponseBodies(r) : RespondOk(r, res)
    \/ \E status \in Statuses : RespondError(r, status)
    \/ \E res \in RefreshBodies : RefreshRespond(r, res)
    \/ \E status \in Statuses : RefreshError(r, status)
    \/ \E status \in Statuses : RetryError(r, status)
    \/ \E status \in Statuses : QueuedRetryError(r, status)

(* Every HTTP call is answered in the end, with a response or an error;    *)
(* nothing obliges the application to issue further requests               *)
SpecAuthFair == SpecAuth /\ \A r \in Reqs : WF_vars(Answered(r))

(* ngOnDestroy of the component that issued request r:                     *)
(* this.subscriptions.unsubscribe() tears the request's observable chain   *)
(* down while it is pending. The HTTP call under way (the request itself,  *)
(* its refresh call or its re-send) is aborted, a queued request leaves    *)
(* tokenSubject, and none of the interceptor's callbacks runs for it.      *)
Unsubscribe(r) ==
    /\ reqs[r].state \in {"sent", "refreshing", "queued", "retried", "retriedQueued"}
    /\ reqs' = [reqs EXCEPT ![r].state = "cancelled"]
    /\ UNCHANGED <<localStorage, routerUrl, isRefreshing, tokenSubject, issued>>
    /\ UNCHANGED rackVars

(* The interceptor with components that may be destroyed while their       *)
(* requests are pending                                                    *)
NextTeardown ==
    \/ NextAuth
    \/ \E r \in Reqs : Unsubscribe(r)

SpecTeardown == InitAuth /\ [][NextTeardown]_vars

(* The same with the user logging out and the router consulting AuthGuard *)
NextSession ==
    \/ NextAuth
    \/ UserLogout
    \/ CanActivate

SpecSession == InitAuth /\ [][NextSession]_vars

(* A session in which the pages issue one request, the user can log out    *)
(* and the router consults AuthGuard                                       *)
PageRequest == 1

NextGuard ==
    \/ \E req \in AppRequests : Intercept(PageRequest, req.url, req.hdr)
    \/ \E res \in ResponseBodies(PageRequest) : RespondOk(PageRequest, res)
    \/ \E status \in Statuses : RespondError(PageRequest, status)
    \/ \E res \in RefreshBodies : RefreshRespond(PageRequest, res)
    \/ \E status \in Statuses : RefreshError(PageRequest, status)
    \/ \E status \in Statuses : RetryError(PageRequest, status)
    \/ UserLogout
    \/ CanActivate

SpecGuard == InitAuth /\ [][NextGuard]_vars

----------------------------------------------------------------------------
(* ErrorInterceptor: the innermost interceptor, which sees the error of    *)
(* every send.                                                             *)

ERROR_CODES ==
    (0 :> "Network error: Unable to reach server")
    @@ (400 :> "Invalid request sent to server")
    @@ (401 :> "Unauthorized")
    @@ (403 :> "You do not have permission to perform this action")
    @@ (404 :> "Requested resource not found")
    @@ (409 :> "Conflict occurred while processing your request")
    @@ (422 :> "Validation failed on server")
    @@ (429 :> "Too many requests. Slow down.")
    @@ (500 :> "Internal server error")
    @@ (502 :> "Bad gateway")
    @@ (503 :> "Service unavailable, try again later")
    @@ (504 :> "Server taking too long to respond")

(* The statuses a failed send can carry: those of ERROR_CODES, 419, and    *)
(* one that ERROR_CODES does not list                                      *)
ErrorStatuses == DOMAIN ERROR_CODES \cup {TokenExpired, 418}

(* PUT /api/dcim/update/<rackName> for a rack the user named "Login" *)
UpdateUrl == <<"api", "dcim", "update", "Login">>

ErrorUrls == {ListUrl, LoginUrl, RefreshUrl, UpdateUrl}

(* String.prototype.toLowerCase on the URLs in use: every segment but the  *)
(* rack's name is lower case already                                       *)
ToLowerCase(url) == [i \in 1..Len(url) |-> IF url[i] = "Login" THEN "login" ELSE url[i]]

(* err.error: the body of the error response. A field the body lacks is    *)
(* undefined; an empty string is falsy like undefined.                     *)
ErrorBodies ==
    { <<>>,
      [message |-> "Rack is in use"],
      [detail |-> "Name already exists"],
      [message |-> "Rack is in use", detail |-> "Name already exists"],
      [message |-> "", detail |-> "Name already exists"],
      [message |-> ""] }

Truthy(body, field) == field \in DOMAIN body /\ body[field] # ""

(* An interceptor that prefers err.error.detail *)
ErrorInterceptor_shown_DetailFirst(url, err) ==
    IF Includes(ToLowerCase(url), "login") \/ err.status = TokenExpired THEN <<>>
    ELSE IF Truthy(err.error, "detail") THEN << err.error.detail >>
    ELSE IF Truthy(err.error, "message") THEN << err.error.message >>
    ELSE IF err.status \in DOMAIN ERROR_CODES THEN << ERROR_CODES[err.status] >>
    ELSE << "Unexpected error occurred" >>

(* The catchError of ErrorInterceptor.intercept: what it hands to          *)
(* errorService.showError                                                  *)
ErrorInterceptor_shown(url, err) ==
    IF Includes(ToLowerCase(url), "login") \/ err.status = TokenExpired THEN <<>>
    ELSE IF Truthy(err.error, "message") THEN << err.error.message >>
    ELSE IF Truthy(err.error, "detail") THEN << err.error.detail >>
    ELSE IF err.status \in DOMAIN ERROR_CODES THEN << ERROR_CODES[err.status] >>
    ELSE << "Unexpected error occurred" >>

(* A send to url fails with err: emitted holds the notifications shown,    *)
(* ret the error passed on to the caller                                   *)
ErrorIntercept(url, err) ==
    /\ call' = [comp |-> "ErrorInterceptor", op |-> "intercept", slot |-> err.status,
                 occ |-> [url |-> url, err |-> err]]
    /\ emitted' = ErrorInterceptor_shown(url, err)
    /\ ret' = [thrown |-> err]
    /\ UNCHANGED <<units, occupied>>
    /\ UNCHANGED authVars

NextError ==
    \E url \in ErrorUrls, status \in ErrorStatuses, body \in ErrorBodies :
        ErrorIntercept(url, [status |-> status, error |-> body])

SpecError == InitAuth /\ [][NextError]_vars

----------------------------------------------------------------------------
(* One action per method call on a rack component. call records the       *)
(* method and its arguments, ret what it returned, emitted the events it   *)
(* sent through the deviceClick EventEmitter.                              *)

NoCall == [comp |-> "none", op |-> "none", slot |-> 0, occ |-> Undefined]

Called(comp, op, slot, occ) ==
    /\ call' = [comp |-> comp, op |-> op, slot |-> slot, occ |-> occ]
    /\ UNCHANGED authVars

DynamicGetSlots ==
    /\ Called("Dynamic", "getSlots", 0, Undefined)
    /\ ret' = Dynamic_getSlots
    /\ emitted' = <<>>
    /\ UNCHANGED <<units, occupied>>

(* An isOccupied that consumes the list it searched *)
DynamicIsOccupied_Consuming(slot) ==
    /\ Called("Dynamic", "isOccupied", slot, Undefined)
    /\ ret' = Dynamic_isOccupied(slot)
    /\ emitted' = <<>>
    /\ occupied' = <<>>
    /\ UNCHANGED units

DynamicIsOccupied(slot) ==
    /\ Called("Dynamic", "isOccupied", slot, Undefined)
    /\ ret' = Dynamic_isOccupied(slot)
    /\ emitted' = <<>>
    /\ UNCHANGED <<units, occupied>>

DynamicShouldRenderBlock(slot, occ) ==
    /\ Called("Dynamic", "shouldRenderBlock", slot, occ)
    /\ ret' = Dynamic_shouldRenderBlock(slot, occ)
    /\ emitted' = <<>>
    /\ UNCHANGED <<units, occupied>>

DynamicOnDeviceClick(device) ==
    /\ Called("Dynamic", "onDeviceClick", 0, device)
    /\ ret' = Undefined
    /\ emitted' = Dynamic_onDeviceClick(device)
    /\ UNCHANGED <<units, occupied>>

DynamicOnSlotClick(slot) ==
    /\ Called("Dynamic", "onSlotClick", slot, Undefined)
    /\ ret' = Undefined
    /\ emitted' = Dynamic_onSlotClick(slot)
    /\ UNCHANGED <<units, occupied>>

RackViewGetSlots ==
    /\ Called("RackView", "getSlots", 0, Undefined)
    /\ ret' = RackView_getSlots
    /\ emitted' = <<>>
    /\ UNCHANGED <<units, occupied>>

RackViewIsOccupied(slot) ==
    /\ Called("RackView", "isOccupied", slot, Undefined)
    /\ ret' = RackView_isOccupied(slot)
    /\ emitted' = <<>>
    /\ UNCHANGED <<units, occupied>>

RackViewShouldRenderBlock(slot, occ) ==
    /\ Called("RackView", "shouldRenderBlock", slot, occ)
    /\ ret' = RackView_shouldRenderBlock(slot, occ)
    /\ emitted' = <<>>
    /\ UNCHANGED <<units, occupied>>

OccupiedEntries == { occupied[i] : i \in 1..Len(occupied) }

(* The component's inputs as a parent has bound them; no method called yet *)
InitRack ==
    /\ units \in 1..MaxUnits
    /\ occupied \in OccupiedLists(units)
    /\ call = NoCall
    /\ ret = Undefined
    /\ emitted = <<>>
    /\ SessionStarted

NextRack ==
    \/ DynamicGetSlots
    \/ \E slot \in Slots(units) : DynamicIsOccupied(slot)
    \/ \E slot \in Slots(units), occ \in OccupiedEntries : DynamicShouldRenderBlock(slot, occ)
    \/ \E device \in OccupiedEntries : DynamicOnDeviceClick(device)
    \/ \E slot \in Slots(units) : DynamicOnSlotClick(slot)
    \/ RackViewGetSlots
    \/ \E slot \in Slots(units) : RackViewIsOccupied(slot)
    \/ \E slot \in Slots(units), occ \in OccupiedEntries : RackViewShouldRenderBlock(slot, occ)

SpecRack == InitRack /\ [][NextRack]_vars

----------------------------------------------------------------------------
(* RackDetailsComponent and DeviceDetailsComponent: the pages that build   *)
(* the inputs of a rack component from a backend response and route the    *)
(* events it emits. units is what getRackUnits() returns and occupied is   *)
(* occupiedDevices. A field that is undefined or null in the response is   *)
(* a field the record lacks (the code treats the two alike everywhere).    *)

(* The positions and sizes the backend reports. Nothing on the way from    *)
(* the response to the rack validates them: position 0 and positions above *)
(* the rack's height are included.                                         *)
BackendPositions == 0..(MaxUnits + 1)
BackendSpaces == 1..MaxUnits
BackendHeights == 1..MaxUnits

(* The i-th device of a response: a name, and a position and a             *)
(* space_required where the backend supplies them                          *)
BackendDevices(i) ==
    LET name == [name |-> LabelNames[i]]
    IN  {name}
        \cup { name @@ [position |-> p] : p \in BackendPositions }
        \cup { name @@ [space_required |-> s] : s \in BackendSpaces }
        \cup { name @@ [position |-> p, space_required |-> s]
                 : p \in BackendPositions, s \in BackendSpaces }

BackendDeviceLists ==
    UNION { { l \in [1..n -> UNION { BackendDevices(i) : i \in 1..n }] :
                \A i \in 1..n : l[i] \in BackendDevices(i) }
            : n \in 0..MaxEntries }

(* res.data: the rack's height (data.height of a rack, data.rack.height of *)
(* a device) where supplied, and the devices of the rack                   *)
BackendData ==
    { [devices |-> l] : l \in BackendDeviceLists }
    \cup { [devices |-> l, height |-> h] : l \in BackendDeviceLists, h \in BackendHeights }

(* Number(d[field]) || 1 *)
NumberOrOne(d, field) ==
    IF field \in DOMAIN d /\ d[field] # 0 THEN d[field] ELSE 1

(* Array.prototype.filter: the elements the predicate keeps, in order *)
RECURSIVE ArrayFilter(_, _, _)
ArrayFilter(arr, keep, i) ==
    IF i > Len(arr) THEN <<>>
    ELSE IF i \in keep THEN << arr[i] >> \o ArrayFilter(arr, keep, i + 1)
    ELSE ArrayFilter(arr, keep, i + 1)

(* buildOccupiedDevices of both pages (the colour they add is left out) *)
buildOccupiedDevices(devices) ==
    LET placed == ArrayFilter(devices,
                              { i \in 1..Len(devices) : "position" \in DOMAIN devices[i] }, 1)
    IN  [i \in 1..Len(placed) |->
            [start |-> NumberOrOne(placed[i], "position"),
             height |-> NumberOrOne(placed[i], "space_required"),
             label |-> placed[i].name]]

(* getRackUnits of both pages after the response data was mapped:          *)
(* rack.height_u || 42, device.rack_height || 42                           *)
getRackUnits(data) == IF "height" \in DOMAIN data THEN data.height ELSE DefaultUnits

(* Router.navigate(commands): the URL the commands make up *)
Navigate(commands) ==
    IF Len(commands) = 1 THEN commands[1] ELSE commands[1] \o "/" \o commands[2]

(* An onDeviceClick that opens the add page whatever was clicked *)
onDeviceClick_AlwaysAdd(event) == << "StockRoom/Devices/add" >>

(* onDeviceClick of both pages: the commands it hands to Router.navigate *)
onDeviceClick(event) ==
    IF "empty" \in DOMAIN event /\ event.empty
    THEN << "StockRoom/Devices/add" >>
    ELSE << "StockRoom/Devices", event.label >>

(* The next handler of fetchRackDetails / fetchDeviceDetails *)
PageFetched(page, data) ==
    /\ call' = [comp |-> page, op |-> "fetch", slot |-> 0, occ |-> data]
    /\ units' = getRackUnits(data)
    /\ occupied' = buildOccupiedDevices(data.devices)
    /\ ret' = Undefined
    /\ UNCHANGED emitted
    /\ UNCHANGED authVars

(* The error handler of fetchRackDetails / fetchDeviceDetails *)
PageFetchFailed(page) ==
    /\ call' = [comp |-> page, op |-> "fetchError", slot |-> 0, occ |-> Undefined]
    /\ ret' = Undefined
    /\ UNCHANGED <<units, occupied, emitted>>
    /\ UNCHANGED authVars

(* ngOnInit of a page: the details are fetched once, and the request is    *)
(* answered with data or with an error                                     *)
PageLoads(page) ==
    /\ call = NoCall
    /\ \/ \E data \in BackendData : PageFetched(page, data)
       \/ PageFetchFailed(page)

(* What the rack component of a page can emit through deviceClick *)
PageEvents ==
    { Dynamic_onDeviceClick(o)[1] : o \in OccupiedEntries }
    \cup UNION { { Dynamic_onSlotClick(s)[i] : i \in 1..Len(Dynamic_onSlotClick(s)) }
                 : s \in 1..(IF units < MaxUnits THEN units ELSE MaxUnits) }

(* (deviceClick)="onDeviceClick($event)" on a loaded page; the navigation  *)
(* leaves the page                                                         *)
PageDeviceClick(page, event) ==
    /\ call.comp = page
    /\ call.op \in {"fetch", "fetchError"}
    /\ call' = [comp |-> page, op |-> "onDeviceClick", slot |-> 0, occ |-> event]
    /\ emitted' = << event >>
    /\ routerUrl' = Navigate(onDeviceClick(event))
    /\ ret' = Undefined
    /\ UNCHANGED <<units, occupied>>
    /\ UNCHANGED <<localStorage, isRefreshing, tokenSubject, reqs, issued>>

Pages == {"RackDetails", "DeviceDetails"}

NextPage ==
    \/ \E page \in Pages : PageLoads(page)
    \/ \E page \in Pages, event \in PageEvents : PageDeviceClick(page, event)

SpecPage == InitAuth /\ [][NextPage]_vars

----------------------------------------------------------------------------
(* Properties of the rack components *)

(* The slots an entry claims: [start, start + height - 1] *)
Range(o) == o.start..(o.start + o.height - 1)

IsCall(comp, op) == call.comp = comp /\ call.op = op

(* C1: DynamicRackComponent.shouldRenderBlock(slot, occ) is true exactly   *)
(* at the topmost occupied slot start + height - 1 of an entry of height   *)
(* >= 1, and false at every other slot.                                    *)
C1_DynamicRendersAtTopmost ==
    (IsCall("Dynamic", "shouldRenderBlock") /\ call.occ.height >= 1)
        => (ret = (call.slot = call.occ.start + call.occ.height - 1))

(* C2: for every slot and every entry (of height >= 1), the two            *)
(* components' shouldRenderBlock give the same answer: what one returned   *)
(* is what the other computes for the same arguments.                      *)
C2_SameAnchorAtEveryCallSite ==
    /\ (IsCall("Dynamic", "shouldRenderBlock") /\ call.occ.height >= 1)
         => ret = RackView_shouldRenderBlock(call.slot, call.occ)
    /\ (IsCall("RackView", "shouldRenderBlock") /\ call.occ.height >= 1)
         => ret = Dynamic_shouldRenderBlock(call.slot, call.occ)

(* C3: with a single entry of height >= 1, isOccupied(s) for s in 1..units *)
(* returns the entry exactly when start <= s <= start + height - 1 and     *)
(* undefined otherwise, in both components.                                *)
C3_SingleEntryLookup ==
    (/\ call.op = "isOccupied"
     /\ Len(occupied) = 1
     /\ occupied[1].height >= 1
     /\ call.slot \in 1..units)
        => ret = (IF /\ occupied[1].start <= call.slot
                     /\ call.slot <= occupied[1].start + occupied[1].height - 1
                  THEN occupied[1]
                  ELSE Undefined)

C3_Witness ==
    /\ IsCall("RackView", "isOccupied")
    /\ Len(occupied) = 1
    /\ occupied[1].height = 2
    /\ call.slot = occupied[1].start + 1
    /\ call.slot \in 1..units
    /\ ret = occupied[1]

(* C4: for units > 0, getSlots() has exactly units elements, starts at     *)
(* units, ends at 1 and descends by 1 at every step.                       *)
C4_SlotsDescending ==
    (call.op = "getSlots" /\ units > 0)
        => /\ Len(ret) = units
           /\ ret[1] = units
           /\ ret[Len(ret)] = 1
           /\ \A i \in 1..(Len(ret) - 1) : ret[i + 1] = ret[i] - 1
           /\ \A s \in 1..units : Cardinality({ i \in 1..Len(ret) : ret[i] = s }) = 1

C4_Witness ==
    /\ IsCall("Dynamic", "getSlots")
    /\ units >= 2
    /\ Len(ret) = units

(* C5: in each component, an entry of height >= 1 lying inside the rack    *)
(* has exactly one slot of getSlots() at which shouldRenderBlock is true.  *)
InsideRack(o) == o.height >= 1 /\ o.start >= 1 /\ o.start + o.height - 1 <= units

C5_RenderedExactlyOnce ==
    \A o \in OccupiedEntries :
        InsideRack(o) =>
            /\ Cardinality({ i \in 1..Len(Dynamic_getSlots) :
                               Dynamic_shouldRenderBlock(Dynamic_getSlots[i], o) }) = 1
            /\ Cardinality({ i \in 1..Len(RackView_getSlots) :
                               RackView_shouldRenderBlock(RackView_getSlots[i], o) }) = 1

C5_Witness ==
    /\ IsCall("Dynamic", "shouldRenderBlock")
    /\ InsideRack(call.occ)
    /\ call.occ.height >= 2
    /\ ret = TRUE

(* C6: onSlotClick(s) emits exactly one event {empty: true, slot: s} when  *)
(* no entry covers s and no event when some entry covers s.                *)
C6_SlotClickEmitsOnlyWhenEmpty ==
    IsCall("Dynamic", "onSlotClick")
        => emitted = (IF \E o \in OccupiedEntries : call.slot \in Range(o)
                      THEN <<>>
                      ELSE << [empty |-> TRUE, slot |-> call.slot] >>)

C6_Witness ==
    /\ IsCall("Dynamic", "onSlotClick")
    /\ Len(occupied) >= 1
    /\ \E o \in OccupiedEntries : o.height >= 1
    /\ emitted = << [empty |-> TRUE, slot |-> call.slot] >>

(* C7: onDeviceClick(entry) emits exactly one event, whose payload is the  *)
(* entry passed in, label included.                                        *)
C7_DeviceClickEmitsEntry ==
    IsCall("Dynamic", "onDeviceClick")
        => /\ Len(emitted) = 1
           /\ emitted[1] = call.occ
           /\ emitted[1].label = call.occ.label

C7_Witness ==
    /\ IsCall("Dynamic", "onDeviceClick")
    /\ call.occ \in OccupiedEntries
    /\ emitted = << call.occ >>

(* C8: lookup is first-match-wins and total: isOccupied(s) returns the     *)
(* first entry in list order that covers s, undefined when none does, for  *)
(* overlapping entries, out-of-range starts and non-positive heights too.  *)
C8_FirstMatchWins ==
    call.op = "isOccupied"
        => LET covering == { i \in 1..Len(occupied) : call.slot \in Range(occupied[i]) }
           IN  /\ covering = {} => ret = Undefined
               /\ covering # {} =>
                    \E i \in covering :
                        /\ \A j \in covering : i <= j
                        /\ ret = occupied[i]

C8_Witness ==
    /\ IsCall("Dynamic", "isOccupied")
    /\ Len(occupied) = 2
    /\ call.slot \in Range(occupied[1])
    /\ call.slot \in Range(occupied[2])
    /\ occupied[1].start # occupied[2].start
    /\ ret = occupied[1]

(* C9: with two non-overlapping entries in the list, in either order, a    *)
(* lookup inside one entry's range returns that entry and never the other. *)
C9_DistinctEntries ==
    call.op = "isOccupied"
        => /\ \A i, j \in 1..Len(occupied) :
                (/\ i # j
                 /\ Range(occupied[i]) \cap Range(occupied[j]) = {}
                 /\ call.slot \in Range(occupied[i]))
                    => ret # occupied[j]
           /\ (/\ Len(occupied) = 2
               /\ Range(occupied[1]) \cap Range(occupied[2]) = {})
                 => \A i \in 1..2 :
                        call.slot \in Range(occupied[i]) => ret = occupied[i]

C9_Witness ==
    /\ IsCall("Dynamic", "isOccupied")
    /\ Len(occupied) = 2
    /\ Range(occupied[1]) \cap Range(occupied[2]) = {}
    /\ Range(occupied[1]) # {}
    /\ occupied[1].start > occupied[2].start
    /\ call.slot \in Range(occupied[2])
    /\ ret = occupied[2]

(* What a query method returns for the arguments recorded in c, computed  *)
(* from the inputs as they are before the call                             *)
QueryResult(c) ==
    CASE c.comp = "Dynamic" /\ c.op = "getSlots" -> Dynamic_getSlots
      [] c.comp = "Dynamic" /\ c.op = "isOccupied" -> Dynamic_isOccupied(c.slot)
      [] c.comp = "Dynamic" /\ c.op = "shouldRenderBlock" ->
             Dynamic_shouldRenderBlock(c.slot, c.occ)
      [] c.comp = "RackView" /\ c.op = "getSlots" -> RackView_getSlots
      [] c.comp = "RackView" /\ c.op = "isOccupied" -> RackView_isOccupied(c.slot)
      [] c.comp = "RackView" /\ c.op = "shouldRenderBlock" ->
             RackView_shouldRenderBlock(c.slot, c.occ)

(* C18: getSlots, isOccupied and shouldRenderBlock are pure: a call leaves *)
(* units and occupied as they were and emits nothing, and what it returns  *)
(* depends on its arguments and those inputs only, so the same call gives  *)
(* the same result after any sequence of calls.                            *)
C18_QueriesArePure ==
    [][call'.op \in {"getSlots", "isOccupied", "shouldRenderBlock"} =>
          /\ units' = units
          /\ occupied' = occupied
          /\ emitted' = <<>>
          /\ ret' = QueryResult(call')
          /\ call' = call => ret' = ret]_vars

C18_Witness ==
    /\ IsCall("RackView", "isOccupied")
    /\ Len(occupied) = 2
    /\ ret = occupied[2]
    /\ units = 2

----------------------------------------------------------------------------
(* Properties of the token handling *)

(* C10: when the first send of an API request other than /refresh is       *)
(* answered 401 while a refresh token is stored, the interceptor posts     *)
(* /api/dcim/refresh with Authorization: Bearer <refresh_token>.           *)
C10_RefreshOn401 ==
    [][\A r \in Reqs :
          (/\ reqs[r].state = "sent"
           /\ reqs'[r].state # "sent"
           /\ reqs'[r].status = Unauthorized
           /\ ~Includes(reqs[r].url, "refresh")
           /\ refreshToken # Null)
             => /\ Len(reqs'[r].wire) = Len(reqs[r].wire) + 1
                /\ reqs'[r].wire[Len(reqs'[r].wire)] =
                       [url |-> RefreshUrl, auth |-> Bearer(refreshToken)]]_vars

(* The switchMap of handleTokenExpiry has received a valid token pair for *)
(* the refresh that request r started                                      *)
RefreshSucceeded(r) ==
    /\ reqs[r].state = "refreshing"
    /\ reqs'[r].state = "retried"

(* A request that was re-sent after a refresh is not sent again *)
SentOnce(r) ==
    reqs[r].state \in {"retried", "retriedQueued", "done", "failed"}
        => reqs'[r].wire = reqs[r].wire

NewlySent(r) ==
    { reqs'[r].wire[i] : i \in (Len(reqs[r].wire) + 1)..Len(reqs'[r].wire) }

(* C12: every request that goes out while an access token is stored, whose *)
(* URL contains neither 'login' nor 'refresh' and which has no             *)
(* Authorization header of its own, carries Bearer <stored access_token>;  *)
(* login and refresh requests and requests with their own Authorization    *)
(* header go out with their headers unchanged.                             *)
C12_TokenAttached ==
    [][\A r \in Reqs : \A e \in NewlySent(r) :
          LET own == IF e.url = RefreshUrl THEN Bearer(refreshToken) ELSE reqs'[r].hdr
          IN  IF Includes(e.url, "login") \/ Includes(e.url, "refresh") \/ own # Null
              THEN e.auth = own
              ELSE accessToken' # Null => e.auth = Bearer(accessToken')]_vars

C12_Witness ==
    \E r, q \in Reqs :
        /\ reqs[r].state = "sent"
        /\ reqs[r].url = ListUrl
        /\ reqs[r].hdr = Null
        /\ accessToken # Null
        /\ reqs[r].wire = << [url |-> ListUrl, auth |-> Bearer(accessToken)] >>
        /\ reqs[q].hdr = ExplicitAuthorization
        /\ reqs[q].wire[1].auth = ExplicitAuthorization

(* The first send of request r is answered 419 while a refresh is under way *)
ExpiredWhileRefreshing(r) ==
    /\ isRefreshing
    /\ reqs[r].state = "sent"
    /\ reqs'[r].state # "sent"
    /\ reqs'[r].status = TokenExpired
    /\ ~Includes(reqs[r].url, "refresh")

C20_QueuedCompletes ==
    \A q \in Reqs : (reqs[q].state = "queued") ~> (reqs[q].state # "queued")

(* The refresh call that request r started is answered with a body that   *)
(* lacks access_token or refresh_token, or with null                       *)
InvalidRefreshResponse(r) ==
    /\ reqs[r].state = "refreshing"
    /\ reqs'[r].state # "refreshing"
    /\ issued' = issued + 1
    /\ ~HasBothTokens(reqs'[r].body)

(* C22: the refresh response is validated before use: when it lacks        *)
(* access_token or refresh_token, or is null, no tokens are saved, the     *)
(* original request is not re-sent, isRefreshing is reset to false, the    *)
(* user is logged out and the original call fails with an error.           *)
C22_InvalidRefreshRejected ==
    [][\A r \in Reqs :
          InvalidRefreshResponse(r) =>
              /\ accessToken' = Null
              /\ refreshToken' = Null
              /\ localStorage' = LoggedOutStorage
              /\ routerUrl' = "/login"
              /\ \A q \in Reqs : reqs'[q].wire = reqs[q].wire
              /\ ~isRefreshing'
              /\ reqs'[r].state = "failed"
              /\ reqs'[r].error = PlainError("Invalid refresh response")]_vars

C22_Witness ==
    \E r \in Reqs :
        /\ reqs[r].state = "failed"
        /\ reqs[r].error = PlainError("Invalid refresh response")
        /\ reqs[r].body # Null
        /\ reqs[r].body.access_token # Null
        /\ reqs[r].body.refresh_token = Null
        /\ Len(reqs[r].wire) = 2
        /\ localStorage = LoggedOutStorage
        /\ ~isRefreshing

(* C23: isRefreshing is true only while a refresh call is in flight: in    *)
(* every state where no refresh call is outstanding isRefreshing is false, *)
(* so a later 419 starts a new refresh instead of queueing forever.        *)
C23_RefreshingOnlyInFlight ==
    isRefreshing => \E r \in Reqs : reqs[r].state = "refreshing"

(* C24: when a request fails with 419 and no refresh_token is stored, the  *)
(* interceptor sends no refresh request and no retry, logs the user out,   *)
(* fails the call with the error 'Session Expired' and leaves isRefreshing *)
(* unchanged.                                                              *)
C24_ExpiryWithoutRefreshToken ==
    [][\A r \in Reqs :
          (/\ reqs[r].state = "sent"
           /\ reqs'[r].state # "sent"
           /\ reqs'[r].status = TokenExpired
           /\ ~Includes(reqs[r].url, "refresh")
           /\ refreshToken = Null)
             => /\ \A q \in Reqs : reqs'[q].wire = reqs[q].wire
                /\ localStorage' = LoggedOutStorage
                /\ routerUrl' = "/login"
                /\ reqs'[r].state = "failed"
                /\ reqs'[r].error = PlainError("Session Expired")
                /\ isRefreshing' = isRefreshing]_vars

C24_Witness ==
    \E r \in Reqs :
        /\ reqs[r].state = "failed"
        /\ reqs[r].status = TokenExpired
        /\ reqs[r].error = PlainError("Session Expired")
        /\ Len(reqs[r].wire) = 1
        /\ refreshToken = Null
        /\ routerUrl = "/login"

(* C21: on the 419 path the user is logged out only when the refresh       *)
(* itself fails: when the refresh succeeded and the re-sent original       *)
(* request then fails (with a status other than 401, which forces a logout *)
(* wherever it occurs), that error is passed to the caller and             *)
(* localStorage (tokens, user, menu) and the route are left as they are.   *)
C21_RetryFailureKeepsSession ==
    [][\A r \in Reqs :
          (/\ reqs[r].state = "retried"
           /\ reqs'[r].state = "failed"
           /\ reqs'[r].status # Unauthorized) =>
              /\ reqs'[r].error = HttpError(reqs'[r].status)
              /\ localStorage' = localStorage
              /\ routerUrl' = routerUrl]_vars

----------------------------------------------------------------------------
(* Properties of login and logout *)

(* The next handler of LoginComponent.onLogin has received both tokens *)
LoginSucceeded ==
    \E r \in Reqs :
        /\ IsLogin(r)
        /\ reqs[r].state # "done"
        /\ reqs'[r].state = "done"
        /\ HasBothTokens(reqs'[r].body)

(* C13: after AuthService.logout() the storage holds none of access_token, *)
(* refresh_token, config, user, menu, the router has been sent to /login,  *)
(* and isLoggedIn() and AuthGuard.canActivate() are both false until the   *)
(* next successful login.                                                  *)
C13_LoggedOutUntilLogin ==
    [][/\ UserLogout =>
            /\ \A k \in StorageKeys : localStorage'[k] = Null
            /\ routerUrl' = "/login"
            /\ ~isLoggedIn'
            /\ ~canActivate'
       /\ (localStorage = LoggedOutStorage /\ ~LoginSucceeded) =>
            /\ ~isLoggedIn'
            /\ ~canActivate']_vars

(* C14: a login response with both access_token and refresh_token makes    *)
(* onLogin store the tokens with user, config and menu and navigate to     *)
(* /dashboard; when the login attempt ends in any other way nothing is     *)
(* written to localStorage, nothing is navigated to, and 'Invalid username *)
(* or password' is shown.                                                  *)
C14_LoginOutcome ==
    [][\A r \in Reqs :
          (/\ IsLogin(r)
           /\ reqs[r].state \in {"sent", "refreshing", "retried", "retriedQueued"}
           /\ reqs'[r].state \in {"done", "failed"})
             => IF reqs'[r].state = "done" /\ HasBothTokens(reqs'[r].body)
                THEN /\ accessToken' = reqs'[r].body.access_token
                     /\ refreshToken' = reqs'[r].body.refresh_token
                     /\ \A k \in {"user", "config", "menu"} : localStorage'[k] # Null
                     /\ routerUrl' = "/dashboard"
                     /\ reqs'[r].shown = reqs[r].shown
                ELSE /\ localStorage' = localStorage
                     /\ routerUrl' = routerUrl
                     /\ reqs'[r].shown =
                            Append(reqs[r].shown, "Invalid username or password")]_vars

----------------------------------------------------------------------------
(* Properties of the pages that show a rack *)

PageDid(op) == call.comp \in Pages /\ call.op = op

(* C15: every entry that buildOccupiedDevices hands to the rack component  *)
(* has start >= 1 and start + height - 1 <= getRackUnits(), whatever       *)
(* device list the backend returned.                                       *)
C15_EntriesInsideRack ==
    PageDid("fetch") =>
        \A i \in 1..Len(occupied) :
            /\ occupied[i].start >= 1
            /\ occupied[i].start + occupied[i].height - 1 <= units

(* C16: the entries that buildOccupiedDevices builds for one rack never    *)
(* overlap: the ranges [start, start + height - 1] of any two of them are  *)
(* disjoint.                                                               *)
C16_EntriesDisjoint ==
    PageDid("fetch") =>
        \A i, j \in 1..Len(occupied) :
            i < j => Range(occupied[i]) \cap Range(occupied[j]) = {}

(* C17: the pages' onDeviceClick navigates to StockRoom/Devices/add when   *)
(* the payload has empty = true and to StockRoom/Devices/<label> for any   *)
(* other payload; nothing else on the page navigates.                      *)
C17_ClickNavigates ==
    [][IF call'.comp \in Pages /\ call'.op = "onDeviceClick"
       THEN routerUrl' = IF "empty" \in DOMAIN call'.occ /\ call'.occ.empty
                         THEN "StockRoom/Devices/add"
                         ELSE "StockRoom/Devices/" \o call'.occ.label
       ELSE routerUrl' = routerUrl]_vars

C17_Witness ==
    /\ PageDid("onDeviceClick")
    /\ Len(occupied) = 2
    /\ call.occ = occupied[2]
    /\ routerUrl = "StockRoom/Devices/Server-02"

(* C25: AuthGuard.canActivate returns true exactly when localStorage holds *)
(* both an access_token and a user; in every other case it returns false   *)
(* and navigates to /login. Only a true return lets a route of the main    *)
(* layout be activated.                                                    *)
C25_GuardNeedsTokenAndUser ==
    [][(call'.comp = "AuthGuard" /\ reqs' = reqs) =>
          /\ ret' = (localStorage["access_token"] # Null /\ localStorage["user"] # Null)
          /\ routerUrl' = IF ret' THEN routerUrl ELSE "/login"
          /\ localStorage' = localStorage]_vars

C25_Witness ==
    /\ call.comp = "AuthGuard"
    /\ ret = FALSE
    /\ localStorage["access_token"] # Null
    /\ localStorage["user"] = Null
    /\ routerUrl = "/login"

----------------------------------------------------------------------------
(* Properties of the ErrorInterceptor *)

(* The first available of err.error.message, err.error.detail,             *)
(* ERROR_CODES[status], 'Unexpected error occurred'                        *)
FirstAvailable(err) ==
    IF "message" \in DOMAIN err.error /\ err.error.message # "" THEN err.error.message
    ELSE IF "detail" \in DOMAIN err.error /\ err.error.detail # "" THEN err.error.detail
    ELSE IF err.status \in DOMAIN ERROR_CODES THEN ERROR_CODES[err.status]
    ELSE "Unexpected error occurred"

(* C26 as stated: the ErrorInterceptor always re-throws the original       *)
(* error, and shows one notification per failed request, the first         *)
(* available message, unless the request URL contains 'login' or the       *)
(* status is 419, in which case it shows none.                             *)
C26_ErrorShownOnce ==
    call.comp = "ErrorInterceptor" =>
        /\ ret = [thrown |-> call.occ.err]
        /\ emitted = IF Includes(call.occ.url, "login") \/ call.occ.err.status = TokenExpired
                      THEN <<>>
                      ELSE << FirstAvailable(call.occ.err) >>

(* C26, amended: as above, with the URL compared in lower case: none is    *)
(* shown when the URL contains 'login' in any letter case.                 *)
C26_ErrorShownOnceAnyCase ==
    call.comp = "ErrorInterceptor" =>
        /\ ret = [thrown |-> call.occ.err]
        /\ emitted = IF \/ \E i \in 1..Len(call.occ.url) :
                                call.occ.url[i] \in {"login", "Login"}
                         \/ call.occ.err.status = TokenExpired
                      THEN <<>>
                      ELSE << FirstAvailable(call.occ.err) >>

C26_Witness ==
    /\ call.comp = "ErrorInterceptor"
    /\ call.occ.url = ListUrl
    /\ call.occ.err.status = 404
    /\ call.occ.err.error = [message |-> "", detail |-> "Name already exists"]
    /\ emitted = << "Name already exists" >>

====
